---- MODULE Spec2Model ----
(***************************************************************************)
(* SMLReader._read (src/SMLReader.py): the decoder of the SML binary mesh  *)
(* container.  The model follows the body of _read from line 38 on, that   *)
(* is under the guard of line 37 (the file name has the ".sml" extension). *)
(* A file is a sequence of bytes (0..255); every value the code takes out  *)
(* of the file is computed from those bytes the way struct.unpack does.    *)
(*                                                                         *)
(* Value representations:                                                  *)
(*   uint32  <<hi, lo>>, hi the top bit (2^31) and lo the low 31 bits;     *)
(*   float   a Python float, as the fields of its IEEE-754 binary64:       *)
(*           <<sign, exponent (11 bits, biased), mantissa high 26 bits,    *)
(*             mantissa low 26 bits>>;                                     *)
(*   crc     <<high 16 bits, low 16 bits>>.                                *)
(* Logger.log / Logger.logException (UM.Logger) record a diagnostic and    *)
(* return; Job.yieldThread (UM.Job) cedes the thread and returns.          *)
(***************************************************************************)
EXTENDS Integers, Sequences, FiniteSets, TLC

\* Largest number of catalogue blocks concatenated into one file body.
MaxSegs == 2

\* A local name of _read that no statement has assigned yet.
Unbound == -1

----------------------------------------------------------------------------
(* struct.unpack                                                           *)

\* struct.unpack("<I", d): d is 4 bytes, least significant first.
U32(d) == <<d[4] \div 128, d[1] + d[2] * 256 + d[3] * 65536 + (d[4] % 128) * 16777216>>

\* u >= n for a uint32 u and a Python int 0 <= n < 2^31.
U32Ge(u, n) == u[1] = 1 \/ u[2] >= n

\* u > n for a uint32 u and a Python int n < 2^31.
U32Gt(u, n) == u[1] = 1 \/ u[2] > n

\* The position of the highest set bit of m >= 1 below bit n.
RECURSIVE TopBit(_, _)
TopBit(m, n) == IF m >= 2 ^ n THEN n ELSE TopBit(m, n - 1)

\* struct.unpack("<f", d)[0] of the 4 bytes d: the binary32 widened to the
\* Python float (binary64) of the same value.  The widening is the
\* hardware's float-to-double conversion, which turns a signalling NaN
\* (top mantissa bit clear) into the quiet NaN with that bit set.
F32(d) ==
    LET s == d[4] \div 128
        e == (d[4] % 128) * 2 + d[3] \div 128
        m == (d[3] % 128) * 65536 + d[2] * 256 + d[1]
    IN  IF e = 0 /\ m = 0 THEN <<s, 0, 0, 0>>
        ELSE IF e = 0
             THEN LET p == TopBit(m, 22)
                  IN  <<s, p + 874, (m - 2 ^ p) * 2 ^ (26 - p), 0>>
        ELSE IF e = 255 /\ m # 0 /\ m < 4194304
             THEN <<s, 2047, m * 8 + 33554432, 0>>
        ELSE IF e = 255 THEN <<s, 2047, m * 8, 0>>
        ELSE <<s, e + 896, m * 8, 0>>

\* struct.unpack("<d", d)[0] of the 8 bytes d.
F64(d) ==
    <<d[8] \div 128,
      (d[8] % 128) * 16 + d[7] \div 16,
      (d[7] % 16) * 4194304 + d[6] * 16384 + d[5] * 64 + d[4] \div 4,
      (d[4] % 4) * 16777216 + d[3] * 65536 + d[2] * 256 + d[1]>>

\* -x of a Python float x.
Neg(x) == <<1 - x[1], x[2], x[3], x[4]>>

\* The triple stored as it was read.
RemapIdentity(vertex) == vertex

\* [float(vertex[0]), float(vertex[2]), -float(vertex[1])]
Remap(vertex) == <<vertex[1], vertex[3], Neg(vertex[2])>>

----------------------------------------------------------------------------
(* crc32c.crc32c                                                           *)

RECURSIVE BitXor(_, _, _)
BitXor(x, y, n) ==
    IF n = 0 THEN 0 ELSE ((x + y) % 2) + 2 * BitXor(x \div 2, y \div 2, n - 1)

XorNib == [x \in 0..15 |-> [y \in 0..15 |-> BitXor(x, y, 4)]]

\* x ^ y of two bytes.
Xor8 ==
    [x \in 0..255 |-> [y \in 0..255 |->
        XorNib[x \div 16][y \div 16] * 16 + XorNib[x % 16][y % 16]]]

\* One bit of the reflected CRC with the Castagnoli polynomial 0x82F63B78,
\* on a register of 4 bytes, least significant first.
CrcShift1(r) ==
    LET sh == <<(r[1] \div 2) + (r[2] % 2) * 128, (r[2] \div 2) + (r[3] % 2) * 128,
                (r[3] \div 2) + (r[4] % 2) * 128, r[4] \div 2>>
    IN  IF r[1] % 2 = 1
        THEN <<Xor8[sh[1]][120], Xor8[sh[2]][59], Xor8[sh[3]][246], Xor8[sh[4]][130]>>
        ELSE sh

RECURSIVE CrcBits(_, _)
CrcBits(r, j) == IF j = 0 THEN r ELSE CrcBits(CrcShift1(r), j - 1)

CrcTab == [n \in 0..255 |-> CrcBits(<<n, 0, 0, 0>>, 8)]

\* The register after one more byte of data.
CrcByte(r, t) == <<Xor8[r[2]][t[1]], Xor8[r[3]][t[2]], Xor8[r[4]][t[3]], t[4]>>

\* The register after the bytes data[lo..hi], by halves.
RECURSIVE CrcFold(_, _, _, _)
CrcFold(r, data, lo, hi) ==
    IF lo > hi THEN r
    ELSE IF lo = hi THEN CrcByte(r, CrcTab[Xor8[r[1]][data[lo]]])
    ELSE LET mid == (lo + hi) \div 2
             left == CrcFold(r, data, lo, mid)
         IN  IF left[4] >= 0                  \* left is evaluated here
             THEN CrcFold(left, data, mid + 1, hi)
             ELSE left

\* crc32c.crc32c(data, value)
crc32c(data, value) ==
    LET r == CrcFold(<<255 - (value[2] % 256), 255 - (value[2] \div 256),
                       255 - (value[1] % 256), 255 - (value[1] \div 256)>>, data, 1, Len(data))
    IN  <<(255 - r[4]) * 256 + (255 - r[3]), (255 - r[2]) * 256 + (255 - r[1])>>

\* struct.unpack("<I", d)[0] as a crc value.
CrcOfBytes(d) == <<d[4] * 256 + d[3], d[2] * 256 + d[1]>>

----------------------------------------------------------------------------
(* The files the decoder is run on                                         *)

\* The 4 little-endian bytes of a uint32 n < 2^31.
LE32(n) == <<n % 256, (n \div 256) % 256, (n \div 65536) % 256, n \div 16777216>>

\* The 4 little-endian bytes of a crc value.
CrcBytes(c) == <<c[2] % 256, c[2] \div 256, c[1] % 256, c[1] \div 256>>

\* A segment: 1 byte type, 4 bytes length, payload.
Seg(type, payload) == <<type>> \o LE32(Len(payload)) \o payload

\* binary32 of the integers 0..5.
F32Bytes(n) ==
    CASE n = 0 -> <<0, 0, 0, 0>>
      [] n = 1 -> <<0, 0, 128, 63>>
      [] n = 2 -> <<0, 0, 0, 64>>
      [] n = 3 -> <<0, 0, 64, 64>>
      [] n = 4 -> <<0, 0, 128, 64>>
      [] n = 5 -> <<0, 0, 160, 64>>

\* binary64 of the integers 1..3 and of -2.5.
F64Bytes(n) ==
    CASE n = 1 -> <<0, 0, 0, 0, 0, 0, 240, 63>>
      [] n = 2 -> <<0, 0, 0, 0, 0, 0, 0, 64>>
      [] n = 3 -> <<0, 0, 0, 0, 0, 0, 8, 64>>
      [] OTHER -> <<0, 0, 0, 0, 0, 0, 4, 192>>

RECURSIVE Concat(_)
Concat(ss) == IF ss = <<>> THEN <<>> ELSE Head(ss) \o Concat(Tail(ss))

\* Float vertex list with the 5 source triples (k, k+1, 1), k = 0..4.
FloatPool5 ==
    Seg(1, Concat([k \in 1..5 |-> F32Bytes(k - 1) \o F32Bytes(k) \o F32Bytes(1)]))

\* Double vertex list with the source triples (1, 2, 3) and (3, -2.5, 1).
DoublePool2 ==
    Seg(2, F64Bytes(1) \o F64Bytes(2) \o F64Bytes(3)
           \o F64Bytes(3) \o F64Bytes(0) \o F64Bytes(1))

Idx(s) == Concat([k \in 1..Len(s) |-> LE32(s[k])])

Blocks ==
    { Seg(0, <<>>),                                   \* empty comment
      Seg(0, <<9, 9>>),                               \* comment
      DoublePool2,
      Seg(1, F32Bytes(1) \o F32Bytes(2) \o F32Bytes(3) \o <<0>>),  \* 13 bytes
      Seg(1, <<>>),                                   \* empty vertex list
      Seg(1, <<1, 0, 128, 127, 0, 0, 192, 127, 0, 0, 160, 255>>),  \* NaNs
      Seg(3, Idx(<<0, 1, 2, 1, 5, 2>>)                \* triangles, two bad
             \o <<255, 255, 255, 255, 0, 0, 0, 0, 0, 0, 0, 0>>
             \o Idx(<<1, 0, 1>>)),
      Seg(4, Idx(<<0, 1, 2, 3, 1, 2, 3, 5, 1, 0, 1, 0>>)),  \* quads, one bad
      Seg(5, Idx(<<0, 1, 2, 3, 4>>)),                 \* strip
      Seg(5, Idx(<<0, 1, 2, 5, 3>>)),                 \* strip, bad index
      Seg(5, Idx(<<0, 5, 1, 0>>)),                    \* strip, bad start
      Seg(5, <<>>),                                   \* strip of 0 indices
      Seg(9, <<7>>),                                  \* unknown type
      <<0>> \o LE32(3) \o <<9, 9>>,                   \* 1 byte short
      <<1, 255, 255, 255, 255>>,                      \* length 2^32 - 1
      <<0>> }                                         \* 1 stray byte

Bodies == UNION { [1..n -> Blocks] : n \in 0..MaxSegs }

Magic == <<83, 77, 76, 49>>                           \* b"SML1"

\* A file with the given first 4 bytes whose stored checksum is right.
Sealed(magic, body) == magic \o CrcBytes(crc32c(body, <<0, 0>>)) \o body

\* A file whose stored checksum is wrong.
Unsealed(magic, body) ==
    magic \o CrcBytes(crc32c(body \o <<1>>, <<0, 0>>)) \o body

\* A body starts with the 5-vertex pool or without a pool.
Prefixes == { <<>>, FloatPool5 }

Files ==
    { Sealed(Magic, pre \o Concat(bs)) : pre \in Prefixes, bs \in Bodies }
    \cup { Unsealed(Magic, Concat(bs)) : bs \in [1..1 -> Blocks] }
    \cup { Sealed(<<83, 77, 76, 50>>, Concat(bs)) : bs \in [1..1 -> Blocks] }
    \cup { SubSeq(Magic \o <<0, 0, 0, 0, 0, 0, 0, 0, 0>>, 1, n) : n \in 0..12 }

----------------------------------------------------------------------------
(* The state of one call of _read                                          *)

VARIABLES
    file,            \* the bytes of the file named file_name
    have_crc32c,     \* the module flag set by "import crc32c"
    cancelRequested, \* the host has asked for the job to be cancelled
    cancelPending,   \* a yield checkpoint was passed while it was asked
    run,             \* 1, or 2 for the decode of the re-stamped file
    first,           \* what run 1 ended with, once run 2 has begun
    pc,              \* the statement _read is at
    outcome,         \* how the call ended, "running" until it has
    fopen,           \* f has been opened and f.close() has not been called
    cursor,          \* f.tell()
    nread,           \* the number of bytes f.read has returned
    crc, checkcrc,
    pos, segtype, seglength, count,
    k,               \* the next value of the running range() iterator
    i, a, b, c,
    vertex_list, vertices,
    mesh_builder,    \* the faces given to addFaceByPoints, in order
    diags,           \* the non-fatal errors logged, in order
    faceBase,        \* Len(mesh_builder) when the segment header was read
    diagBase,        \* Len(diags) when the segment header was read
    poolBase,        \* <<payload offset, entry width>> of the vertex list
                     \* that line 92 or 103 last emptied vertex_list for
    turns            \* the number of turns of the segment loop begun

host == <<file, have_crc32c, cancelRequested, run, first>>
crcs == <<crc, checkcrc>>
segm == <<pos, segtype, seglength, count>>
abc  == <<a, b, c>>
pool == <<vertex_list, vertices>>
outs == <<mesh_builder, diags>>
base == <<faceBase, diagBase, poolBase, turns>>
vars == <<host, cancelPending, pc, outcome, fopen, cursor, nread, crcs, segm,
          k, i, abc, pool, outs, base>>

size == Len(file)                     \* f.seek(0, os.SEEK_END); f.tell()

\* The size of the magic and the checksum alone.
MinSizeHeaderOnly == 4 + 4

MinSize == 13                         \* the smallest size _read accepts

ChunkSize == 65536                    \* the bytes of one crc32c call

Min(x, y) == IF x < y THEN x ELSE y

\* f.read(n): the bytes returned and the position after it.
Read(n) == SubSeq(file, cursor + 1, Min(cursor + n, size))

AfterRead(n) == IF cursor >= size THEN cursor ELSE Min(cursor + n, size)

\* f.seek(n, os.SEEK_CUR): the position after it.
Seek(n) == cursor + n

\* Whether a checkpoint has been passed with the host's request up, after
\* one more checkpoint.
Passed == IF cancelRequested THEN TRUE ELSE cancelPending

\* Job.yieldThread(): the decode goes on with the next statement.
yieldThread(next) == next

\* The locals of _read before line 38 has run.
Fresh ==
    /\ pc = "open" /\ outcome = "running" /\ fopen = FALSE
    /\ cursor = 0 /\ nread = 0
    /\ crc = <<0, 0>> /\ checkcrc = <<0, 0>>
    /\ pos = 0 /\ segtype = Unbound /\ seglength = <<0, 0>> /\ count = 0
    /\ k = 0 /\ i = Unbound
    /\ a = <<0, 0>> /\ b = <<0, 0>> /\ c = <<0, 0>>
    /\ vertex_list = <<>> /\ vertices = Unbound
    /\ mesh_builder = <<>> /\ diags = <<>>
    /\ faceBase = 0 /\ diagBase = 0 /\ poolBase = <<>> /\ turns = 0
    /\ cancelPending = FALSE

Init ==
    /\ file \in Files
    /\ have_crc32c \in BOOLEAN
    /\ cancelRequested = FALSE
    /\ run = 1
    /\ first = <<>>
    /\ Fresh

\* The call ends: return None after a logged error, or an exception.
Ends(kind) == pc' = "end" /\ outcome' = kind

----------------------------------------------------------------------------
(* Header and checksum                                                     *)

\* Lines 43-50.
Open ==
    /\ pc = "open"
    /\ fopen' = TRUE
    /\ IF size < MinSize
       THEN cursor' = size /\ Ends("TruncatedFile")
       ELSE cursor' = 0 /\ pc' = "header" /\ outcome' = outcome
    /\ UNCHANGED <<host, cancelPending, nread, crcs, segm, k, i, abc, pool,
                   outs, base>>

\* The comparison of line 53 on the first 3 bytes only.
HeaderOk3(d) == SubSeq(d, 1, 3) = SubSeq(Magic, 1, 3)

\* Line 53: header[0] is b"SML1".
HeaderOk(d) == d = Magic

\* Lines 52-55.
ReadHeader ==
    /\ pc = "header"
    /\ cursor' = AfterRead(4)
    /\ nread' = nread + Len(Read(4))
    /\ IF Len(Read(4)) < 4 THEN Ends("struct.error")
       ELSE IF ~HeaderOk(Read(4)) THEN Ends("InvalidHeader")
       ELSE pc' = "crc" /\ outcome' = outcome
    /\ UNCHANGED <<host, cancelPending, fopen, crcs, segm, k, i, abc, pool,
                   outs, base>>

\* Lines 57-59.
ReadCrc ==
    /\ pc = "crc"
    /\ cursor' = AfterRead(4)
    /\ nread' = nread + Len(Read(4))
    /\ IF Len(Read(4)) < 4
       THEN Ends("struct.error") /\ UNCHANGED <<crcs, k>>
       ELSE /\ crc' = CrcOfBytes(Read(4))
            /\ checkcrc' = <<0, 0>>
            /\ k' = 8
            /\ pc' = IF have_crc32c THEN "crcloop" ELSE "seek"
            /\ outcome' = outcome
    /\ UNCHANGED <<host, cancelPending, fopen, segm, i, abc, pool, outs, base>>

\* Lines 60-63: one turn of "for i in range(8, size, 65536)".
CrcChunk ==
    /\ pc = "crcloop"
    /\ k < size
    /\ i' = k
    /\ k' = k + ChunkSize
    /\ cursor' = AfterRead(ChunkSize)
    /\ nread' = nread + Len(Read(ChunkSize))
    /\ checkcrc' = crc32c(Read(ChunkSize), checkcrc)
    /\ cancelPending' = Passed
    /\ pc' = yieldThread("crcloop")
    /\ UNCHANGED <<host, outcome, fopen, crc, segm, abc, pool, outs, base>>

\* The comparison with the "return None" of line 67 in force.
CrcCompareFatal ==
    /\ pc = "crcloop"
    /\ k >= size
    /\ IF crc # checkcrc
       THEN Ends("ChecksumMismatch")
       ELSE pc' = "seek" /\ outcome' = outcome
    /\ UNCHANGED <<host, cancelPending, fopen, cursor, nread, crcs, segm, k, i,
                   abc, pool, outs, base>>

\* Lines 64-67: the comparison after the loop.
CrcCompare ==
    /\ pc = "crcloop"
    /\ k >= size
    /\ diags' = IF crc # checkcrc THEN Append(diags, "ChecksumMismatch") ELSE diags
    /\ pc' = "seek"
    /\ outcome' = outcome
    /\ UNCHANGED <<host, cancelPending, fopen, cursor, nread, crcs, segm, k, i,
                   abc, pool, mesh_builder, base>>

\* Lines 69-70.
Rewind ==
    /\ pc = "seek"
    /\ cursor' = 8
    /\ pos' = 8
    /\ pc' = "loop"
    /\ UNCHANGED <<host, cancelPending, outcome, fopen, nread, crcs, segtype,
                   seglength, count, k, i, abc, pool, outs, base>>

----------------------------------------------------------------------------
(* The segment loop                                                        *)

\* The check of line 81 made before line 80 has added the 5 header bytes.
OverrunsEarly(p, len) == U32Gt(len, size - (p - 5))

\* Line 81: pos + seglength > size, pos the position after the header.
Overruns(p, len) == U32Gt(len, size - p)

\* Lines 71-84: the loop test has passed; read and check a segment header.
SegmentHeader ==
    /\ pc = "loop"
    /\ pos < size
    /\ LET realpos == cursor
           d1 == Read(1)
           d4 == SubSeq(file, cursor + Len(d1) + 1, Min(cursor + Len(d1) + 4, size))
           len == U32(d4)
       IN  /\ diags' = IF pos # realpos THEN Append(diags, "PositionDesync") ELSE diags
           /\ cursor' = cursor + Len(d1) + Len(d4)
           /\ nread' = nread + Len(d1) + Len(d4)
           /\ segtype' = IF Len(d1) = 1 THEN d1[1] ELSE segtype
           /\ faceBase' = Len(mesh_builder)
           /\ diagBase' = Len(diags')
           /\ turns' = turns + 1
           /\ IF Len(d1) < 1 \/ Len(d4) < 4
              THEN /\ Ends("struct.error")
                   /\ pos' = realpos
                   /\ seglength' = seglength
              ELSE /\ seglength' = len
                   /\ IF Overruns(realpos + 5, len)
                      THEN Ends("TruncatedSegment") /\ pos' = realpos + 5
                      ELSE /\ pos' = realpos + 5 + len[2]
                           /\ pc' = "dispatch"
                           /\ outcome' = outcome
    /\ UNCHANGED <<host, cancelPending, fopen, crcs, count, k, i, abc, pool,
                   mesh_builder, poolBase>>

\* Lines 87-88.
Comment ==
    /\ pc = "dispatch"
    /\ segtype = 0
    /\ cursor' = Seek(seglength[2])
    /\ pc' = "yield"
    /\ UNCHANGED <<host, cancelPending, outcome, fopen, nread, crcs, segm, k,
                   i, abc, pool, outs, base>>

\* The branch of line 193 ending the call instead of skipping the payload.
UnsupportedFatal ==
    /\ pc = "dispatch"
    /\ segtype > 5
    /\ Ends("UnsupportedSegment")
    /\ UNCHANGED <<host, cancelPending, fopen, cursor, nread, crcs, segm, k, i,
                   abc, pool, outs, base>>

\* Lines 193-195.
Unsupported ==
    /\ pc = "dispatch"
    /\ segtype > 5
    /\ diags' = Append(diags, "UnsupportedSegment")
    /\ cursor' = Seek(seglength[2])
    /\ pc' = "yield"
    /\ UNCHANGED <<host, cancelPending, outcome, fopen, nread, crcs, segm, k,
                   i, abc, pool, mesh_builder, base>>

\* Line 197: the checkpoint after each segment.
SegmentEnd ==
    /\ pc = "yield"
    /\ cancelPending' = Passed
    /\ pc' = yieldThread("loop")
    /\ UNCHANGED <<host, outcome, fopen, cursor, nread, crcs, segm, k, i, abc,
                   pool, outs, base>>

\* Lines 71, 198-202: the loop test fails; close and build the mesh.
Finish ==
    /\ pc = "loop"
    /\ pos >= size
    /\ fopen' = FALSE
    /\ Ends("Mesh")
    /\ UNCHANGED <<host, cancelPending, cursor, nread, crcs, segm, k, i, abc,
                   pool, outs, base>>

----------------------------------------------------------------------------
(* Vertex lists                                                            *)

\* vertex_list left as it was, for the entries to be appended to.
KeptList(old) == old

\* Lines 92 and 103: vertex_list = []
NewList(old) == <<>>

\* Lines 90-92 (width 12, type 1) and 101-103 (width 24, type 2).
VertexStart(type, width, loop) ==
    /\ pc = "dispatch"
    /\ segtype = type
    /\ count' = seglength[2] \div width
    /\ vertex_list' = NewList(vertex_list)
    /\ poolBase' = <<cursor, width>>
    /\ k' = 0
    /\ pc' = loop
    /\ UNCHANGED <<host, cancelPending, outcome, fopen, cursor, nread, crcs,
                   pos, segtype, seglength, i, abc, vertices, outs, faceBase,
                   diagBase, turns>>

FloatStart == VertexStart(1, 12, "float")

DoubleStart == VertexStart(2, 24, "double")

\* struct.unpack(b"<fff", d)
Unpack3f(d) == <<F32(SubSeq(d, 1, 4)), F32(SubSeq(d, 5, 8)), F32(SubSeq(d, 9, 12))>>

\* struct.unpack(b"<ddd", d)
Unpack3d(d) == <<F64(SubSeq(d, 1, 8)), F64(SubSeq(d, 9, 16)), F64(SubSeq(d, 17, 24))>>

\* One turn of "for i in range(count)" over the vertices: the read, the
\* unpack (struct.error on a short read), the append and the checkpoint.
VertexElem(loop, width, vertex) ==
    /\ pc = loop
    /\ k < count
    /\ i' = k
    /\ k' = k + 1
    /\ cursor' = AfterRead(width)
    /\ nread' = nread + Len(Read(width))
    /\ IF Len(Read(width)) < width
       THEN /\ Ends("struct.error")
            /\ UNCHANGED <<vertex_list, cancelPending>>
       ELSE /\ vertex_list' = Append(vertex_list, Remap(vertex))
            /\ cancelPending' = Passed
            /\ pc' = yieldThread(loop)
            /\ outcome' = outcome
    /\ UNCHANGED <<host, fopen, crcs, segm, abc, vertices, outs, base>>

\* Lines 93-97.
FloatElem == VertexElem("float", 12, Unpack3f(Read(12)))

\* Lines 104-107.
DoubleElem == VertexElem("double", 24, Unpack3d(Read(24)))

\* Lines 98-99 and 108-109: the loop is over.
VertexDone ==
    /\ pc \in {"float", "double"}
    /\ k >= count
    /\ vertices' = Len(vertex_list)
    /\ pc' = "yield"
    /\ UNCHANGED <<host, cancelPending, outcome, fopen, cursor, nread, crcs,
                   segm, k, i, abc, vertex_list, outs, base>>

----------------------------------------------------------------------------
(* Faces                                                                   *)

\* struct.unpack of n uint32 out of the bytes d.
UnpackI(d, n) == [j \in 1..n |-> U32(SubSeq(d, 4 * j - 3, 4 * j))]

\* The check of line 120 without its middle term.
OutOfRange3NoB(x, y, z, n) == U32Ge(x, n) \/ U32Ge(z, n)

\* Lines 120 and 168: a >= vertices or b >= vertices or c >= vertices.
OutOfRange3(x, y, z, n) == U32Ge(x, n) \/ U32Ge(y, n) \/ U32Ge(z, n)

\* Line 146.
OutOfRange4(x, y, z, w, n) == OutOfRange3(x, y, z, n) \/ U32Ge(w, n)

\* Line 184: c >= vertices.
OutOfRange1(z, n) == U32Ge(z, n)

\* vertex_list[u] does not raise IndexError.
Resolvable(u) == u[1] = 0 /\ u[2] < Len(vertex_list)

Resolves(t) == \A j \in 1..3 : Resolvable(t[j])

\* The arguments of addFaceByPoints for the index triple t.
Face(t) == [j \in 1..3 |-> vertex_list[t[j][2] + 1]]

\* mesh_builder after addFaceByPoints for the index triples ts in turn, up
\* to the first that raises IndexError.
RECURSIVE Added(_, _)
Added(mb, ts) ==
    IF ts = <<>> \/ ~Resolves(Head(ts)) THEN mb
    ELSE Added(Append(mb, Face(Head(ts))), Tail(ts))

\* The statement after one turn of a loop "for i in range(.., n)".
NextTurn(loop, n) == IF k + 1 < n THEN loop ELSE "yield"

\* One turn of a face loop once its indices are unpacked: the bounds check,
\* the log and continue, or the faces ts and the checkpoint.
FaceTurn(bad, ts, next) ==
    IF vertices = Unbound
    THEN Ends("UnboundLocalError") /\ UNCHANGED <<outs, cancelPending>>
    ELSE IF bad
    THEN /\ diags' = Append(diags, "IndexOutOfRange")
         /\ pc' = next
         /\ UNCHANGED <<outcome, mesh_builder, cancelPending>>
    ELSE /\ mesh_builder' = Added(mesh_builder, ts)
         /\ diags' = diags
         /\ IF \A j \in 1..Len(ts) : Resolves(ts[j])
            THEN /\ cancelPending' = Passed
                 /\ pc' = yieldThread(next)
                 /\ outcome' = outcome
            ELSE Ends("IndexError") /\ cancelPending' = cancelPending

\* Lines 111-112 (type 3, 12 bytes) and 137-138 (type 4, 16 bytes).
FaceStart(type, width, loop) ==
    /\ pc = "dispatch"
    /\ segtype = type
    /\ count' = seglength[2] \div width
    /\ k' = 0
    /\ pc' = IF seglength[2] \div width > 0 THEN loop ELSE "yield"
    /\ UNCHANGED <<host, cancelPending, outcome, fopen, cursor, nread, crcs,
                   pos, segtype, seglength, i, abc, pool, outs, base>>

TriStart == FaceStart(3, 12, "tri")

QuadStart == FaceStart(4, 16, "quad")

\* Lines 113-135.
TriElem ==
    /\ pc = "tri"
    /\ i' = k
    /\ k' = k + 1
    /\ cursor' = AfterRead(12)
    /\ nread' = nread + Len(Read(12))
    /\ IF Len(Read(12)) < 12
       THEN Ends("struct.error") /\ UNCHANGED <<abc, outs, cancelPending>>
       ELSE LET face == UnpackI(Read(12), 3)
            IN  /\ a' = face[1] /\ b' = face[2] /\ c' = face[3]
                /\ FaceTurn(OutOfRange3(face[1], face[2], face[3], vertices),
                            <<face>>, NextTurn("tri", count))
    /\ UNCHANGED <<host, fopen, crcs, segm, pool, base>>

\* A quad split along its other diagonal.
SplitBD(x, y, z, w) == << <<x, y, w>>, <<y, z, w>> >>

\* The two triangles of the quad (x, y, z, w), lines 150-157.
Split(x, y, z, w) == << <<x, y, z>>, <<x, z, w>> >>

\* Lines 139-158.
QuadElem ==
    /\ pc = "quad"
    /\ i' = k
    /\ k' = k + 1
    /\ cursor' = AfterRead(16)
    /\ nread' = nread + Len(Read(16))
    /\ IF Len(Read(16)) < 16
       THEN Ends("struct.error") /\ UNCHANGED <<abc, outs, cancelPending>>
       ELSE LET face == UnpackI(Read(16), 4)
            IN  /\ a' = face[1] /\ b' = face[2] /\ c' = face[3]
                /\ FaceTurn(OutOfRange4(face[1], face[2], face[3], face[4], vertices),
                            Split(face[1], face[2], face[3], face[4]),
                            NextTurn("quad", count))
    /\ UNCHANGED <<host, fopen, crcs, segm, pool, base>>

\* Lines 160-175: the first triangle of a strip.  The log call of line 169
\* names i, which is bound only once some loop of _read has run.
StripStart ==
    /\ pc = "dispatch"
    /\ segtype = 5
    /\ count' = seglength[2] \div 4
    /\ k' = 3
    /\ cursor' = AfterRead(12)
    /\ nread' = nread + Len(Read(12))
    /\ IF Len(Read(12)) < 12
       THEN Ends("struct.error") /\ UNCHANGED <<abc, outs>>
       ELSE LET face == UnpackI(Read(12), 3)
                next == IF 3 < seglength[2] \div 4 THEN "strip" ELSE "yield"
            IN  /\ a' = face[1] /\ b' = face[2] /\ c' = face[3]
                /\ IF vertices = Unbound
                   THEN Ends("UnboundLocalError") /\ UNCHANGED outs
                   ELSE IF OutOfRange3(face[1], face[2], face[3], vertices)
                   THEN IF i = Unbound
                        THEN Ends("UnboundLocalError") /\ UNCHANGED outs
                        ELSE /\ diags' = Append(diags, "IndexOutOfRange")
                             /\ pc' = next
                             /\ UNCHANGED <<outcome, mesh_builder>>
                   ELSE /\ mesh_builder' = Added(mesh_builder, <<face>>)
                        /\ diags' = diags
                        /\ IF Resolves(face)
                           THEN pc' = next /\ outcome' = outcome
                           ELSE Ends("IndexError")
    /\ UNCHANGED <<host, cancelPending, fopen, crcs, pos, segtype, seglength,
                   i, pool, base>>

\* The registers with the parity test of line 178 inverted.
ShiftInverted(n, x, y, z) == IF n % 2 = 0 THEN <<x, z>> ELSE <<z, y>>

\* Lines 178-181: the registers (a, b) before the new index is read.
Shift(n, x, y, z) == IF n % 2 = 1 THEN <<x, z>> ELSE <<z, y>>

\* Lines 177-191: one turn of "for i in range(3, count)".
StripElem ==
    /\ pc = "strip"
    /\ i' = k
    /\ k' = k + 1
    /\ a' = Shift(k, a, b, c)[1]
    /\ b' = Shift(k, a, b, c)[2]
    /\ cursor' = AfterRead(4)
    /\ nread' = nread + Len(Read(4))
    /\ IF Len(Read(4)) < 4
       THEN Ends("struct.error") /\ UNCHANGED <<c, outs, cancelPending>>
       ELSE /\ c' = U32(Read(4))
            /\ IF vertices = Unbound
               THEN Ends("UnboundLocalError") /\ UNCHANGED <<outs, cancelPending>>
               ELSE IF OutOfRange1(U32(Read(4)), vertices)
                    THEN /\ diags' = Append(diags, "IndexOutOfRange")
                         /\ cancelPending' = Passed
                         /\ pc' = yieldThread(NextTurn("strip", count))
                         /\ UNCHANGED <<outcome, mesh_builder>>
                    ELSE LET t == <<a', b', c'>>
                         IN  /\ mesh_builder' = Added(mesh_builder, <<t>>)
                             /\ diags' = diags
                             /\ IF Resolves(t)
                                THEN /\ cancelPending' = Passed
                                     /\ pc' = yieldThread(NextTurn("strip", count))
                                     /\ outcome' = outcome
                                ELSE /\ Ends("IndexError")
                                     /\ cancelPending' = cancelPending
    /\ UNCHANGED <<host, fopen, crcs, segm, pool, base>>

----------------------------------------------------------------------------
(* The host, and the specifications                                        *)

\* The host asks for the job to be cancelled while _read runs.
RequestCancel ==
    /\ pc # "end"
    /\ cancelRequested = FALSE
    /\ cancelRequested' = TRUE
    /\ UNCHANGED <<file, have_crc32c, run, first, cancelPending, pc, outcome,
                   fopen, cursor, nread, crcs, segm, k, i, abc, pool, outs, base>>

\* The file of run 1 with other bytes at offset 4, decoded by a second call
\* of _read once the first has ended.
Restamp ==
    /\ pc = "end"
    /\ run = 1
    /\ size >= 8
    /\ run' = 2
    /\ first' = <<outcome, mesh_builder, diags>>
    /\ \E body \in {SubSeq(file, 9, size), SubSeq(file, 9, size) \o <<1>>} :
          /\ file' = SubSeq(file, 1, 4) \o CrcBytes(crc32c(body, <<0, 0>>))
                     \o SubSeq(file, 9, size)
          /\ file' # file
    /\ pc' = "open" /\ outcome' = "running" /\ fopen' = FALSE
    /\ cursor' = 0 /\ nread' = 0
    /\ crc' = <<0, 0>> /\ checkcrc' = <<0, 0>>
    /\ pos' = 0 /\ segtype' = Unbound /\ seglength' = <<0, 0>> /\ count' = 0
    /\ k' = 0 /\ i' = Unbound
    /\ a' = <<0, 0>> /\ b' = <<0, 0>> /\ c' = <<0, 0>>
    /\ vertex_list' = <<>> /\ vertices' = Unbound
    /\ mesh_builder' = <<>> /\ diags' = <<>>
    /\ faceBase' = 0 /\ diagBase' = 0 /\ poolBase' = <<>> /\ turns' = 0
    /\ cancelPending' = FALSE
    /\ UNCHANGED <<have_crc32c, cancelRequested>>

Next ==
    \/ Open \/ ReadHeader \/ ReadCrc \/ CrcChunk \/ CrcCompare \/ Rewind
    \/ SegmentHeader \/ Comment \/ Unsupported \/ SegmentEnd \/ Finish
    \/ FloatStart \/ FloatElem \/ DoubleStart \/ DoubleElem \/ VertexDone
    \/ TriStart \/ TriElem \/ QuadStart \/ QuadElem
    \/ StripStart \/ StripElem

Spec == Init /\ [][Next]_vars

SpecCancel == Init /\ [][Next \/ RequestCancel]_vars

SpecTwin == Init /\ [][Next \/ Restamp]_vars

----------------------------------------------------------------------------
(* What the claims speak of, read off the file bytes                       *)

\* The faces added, and the errors logged, since the last segment header.
NewFaces == SubSeq(mesh_builder, faceBase + 1, Len(mesh_builder))

NewDiags == SubSeq(diags, diagBase + 1, Len(diags))

\* The 4 bytes of the j-th uint32 (from 0) of the current segment's payload.
Word(j) == SubSeq(file, pos - seglength[2] + 4 * j + 1, pos - seglength[2] + 4 * j + 4)

\* The number the 4 bytes d hold, when it is below 2^31.
Num(d) == d[1] + 256 * d[2] + 65536 * d[3] + 16777216 * d[4]

\* The index held by d is below the pool size.
InPool(d) == d[4] < 128 /\ Num(d) < Len(vertex_list)

\* The triangle of the pool points with indices x, y, z.
Tri(x, y, z) == <<vertex_list[x + 1], vertex_list[y + 1], vertex_list[z + 1]>>

TriOf(t) == Tri(Num(t[1]), Num(t[2]), Num(t[3]))

\* The j-th triple (from 1) of a triangle list.
Triple(j) == <<Word(3 * j - 3), Word(3 * j - 2), Word(3 * j - 1)>>

RECURSIVE TriFaces(_)
TriFaces(n) ==
    IF n = 0 THEN <<>>
    ELSE IF \A j \in 1..3 : InPool(Triple(n)[j])
         THEN Append(TriFaces(n - 1), TriOf(Triple(n)))
         ELSE TriFaces(n - 1)

TriDrops(n) == Cardinality({m \in 1..n : \E j \in 1..3 : ~InPool(Triple(m)[j])})

\* C1: in a triangle list decoded against a pool of size n, after the first
\* k triples the faces added are the triples with all three indices < n, in
\* payload order, each as the three pool points it indexes; every other
\* triple has logged one IndexOutOfRange and nothing else; and no index >= n
\* is ever resolved (no IndexError).
C1_TriangleList ==
    /\ (segtype = 3 /\ pc \in {"tri", "yield"}) =>
          /\ NewFaces = TriFaces(k)
          /\ NewDiags = [j \in 1..TriDrops(k) |-> "IndexOutOfRange"]
    /\ segtype = 3 => outcome # "IndexError"

\* A triangle list has ended with 4 triples read, 2 dropped and 2 emitted,
\* the last one after the dropped ones.
C1_Witness ==
    /\ segtype = 3 /\ pc = "yield" /\ k = 4
    /\ Len(NewFaces) = 2 /\ Len(NewDiags) = 2
    /\ NewFaces[2] = Tri(1, 0, 1)

\* C2: a decode call ends with a mesh or with one of the fatal kinds
\* TruncatedFile, InvalidHeader, TruncatedSegment, Cancelled, and in no
\* other way.
C2_Outcomes ==
    pc = "end" =>
        outcome \in {"Mesh", "TruncatedFile", "InvalidHeader", "TruncatedSegment",
                     "Cancelled"}

\* The segment headers from offset p on tile the file up to its end.
RECURSIVE Tiles(_)
Tiles(p) ==
    IF p = size THEN TRUE
    ELSE IF p + 5 > size THEN FALSE
    ELSE LET d == SubSeq(file, p + 2, p + 5)
         IN  IF d[4] >= 128 \/ Num(d) > size - p - 5 THEN FALSE
             ELSE Tiles(p + 5 + Num(d))

\* The file passes the header validation: 13 bytes or more, magic "SML1".
ValidHeader == size >= 13 /\ SubSeq(file, 1, 4) = <<83, 77, 76, 49>>

\* C3: a file with a valid header whose segment headers do not tile
\* [8, fileSize) ends with TruncatedSegment, or logs PositionDesync, and
\* ends in no other way.
C3_Tiling ==
    (pc = "end" /\ ValidHeader /\ ~Tiles(8)) =>
        \/ outcome = "TruncatedSegment"
        \/ \E j \in 1..Len(diags) : diags[j] = "PositionDesync"

\* C4: a segment header read at p whose declared length L has
\* p + 5 + L > fileSize ends the decode with TruncatedSegment (no mesh),
\* whatever was decoded before; a payload is dispatched only when
\* p + 5 + L <= fileSize.
C4_Truncated ==
    [][(pc = "loop" /\ pos < size /\ cursor + 5 <= size) =>
          LET d == SubSeq(file, cursor + 2, cursor + 5)
          IN  IF d[4] >= 128 \/ Num(d) > size - cursor - 5
              THEN pc' = "end" /\ outcome' = "TruncatedSegment"
              ELSE pc' = "dispatch" /\ outcome' = "running"
                   /\ pos' = cursor + 5 + Num(d) /\ pos' <= size]_vars

\* The decode has ended with TruncatedSegment after faces were added.
C4_Witness ==
    outcome = "TruncatedSegment" /\ Len(mesh_builder) > 0 /\ vertices = 5

\* The registers (a, b, c) of a strip once its index i (from 0) is read,
\* by the rule: (s0, s1, s2) at i = 2; then b <- c for odd i, a <- c for
\* even i, and c <- s[i].
RECURSIVE Registers(_)
Registers(n) ==
    IF n = 2 THEN <<Word(0), Word(1), Word(2)>>
    ELSE LET r == Registers(n - 1)
         IN  IF n % 2 = 1 THEN <<r[1], r[3], Word(n)>> ELSE <<r[3], r[2], Word(n)>>

\* C5: in a strip of n >= 3 indices, all in range, the faces added after the
\* first k indices are those of the register rule, one per index from the
\* third on; the strip [0,1,2,3,4] gives (0,1,2), (0,2,3), (3,2,4).
C5_Strip ==
    (/\ segtype = 5 /\ pc \in {"strip", "yield"} /\ count >= 3
     /\ \A j \in 0..(count - 1) : InPool(Word(j))) =>
        /\ NewFaces = [j \in 1..(k - 2) |-> TriOf(Registers(j + 1))]
        /\ NewDiags = <<>>
        /\ (pc = "yield" /\ [j \in 1..count |-> Num(Word(j - 1))] = <<0, 1, 2, 3, 4>>) =>
              NewFaces = <<Tri(0, 1, 2), Tri(0, 2, 3), Tri(3, 2, 4)>>

\* The strip [0,1,2,3,4] has ended with three faces added.
C5_Witness ==
    /\ segtype = 5 /\ pc = "yield" /\ count = 5 /\ vertices = 5
    /\ [j \in 1..count |-> Num(Word(j - 1))] = <<0, 1, 2, 3, 4>>
    /\ Len(NewFaces) = 3

\* The j-th quad (from 1) of a quad list.
Quad(j) == <<Word(4 * j - 4), Word(4 * j - 3), Word(4 * j - 2), Word(4 * j - 1)>>

RECURSIVE QuadFaces(_)
QuadFaces(n) ==
    IF n = 0 THEN <<>>
    ELSE LET q == Quad(n)
         IN  IF \A j \in 1..4 : InPool(q[j])
             THEN QuadFaces(n - 1) \o <<TriOf(<<q[1], q[2], q[3]>>),
                                        TriOf(<<q[1], q[3], q[4]>>)>>
             ELSE QuadFaces(n - 1)

\* C6: after the first k quads of a quad list, the faces added are, for
\* each quad (a,b,c,d) in payload order, the pair (a,b,c), (a,c,d), adjacent
\* and in that order (a quad with an index out of range adds none, 4.4).
C6_Quads ==
    (segtype = 4 /\ pc \in {"quad", "yield"}) => NewFaces = QuadFaces(k)

\* A quad list has ended with two of its three quads split into 4 faces.
C6_Witness ==
    /\ segtype = 4 /\ pc = "yield" /\ k = 3
    /\ Len(NewFaces) = 4
    /\ NewFaces[1] = Tri(0, 1, 2) /\ NewFaces[2] = Tri(0, 2, 3)

\* C7: a file shorter than 13 bytes ends with TruncatedFile and nothing
\* read; a file of 13 bytes or more that does not start with "SML1" ends
\* with InvalidHeader; neither reads a segment header, adds a face or
\* returns a mesh.
C7_Header ==
    /\ size < 13 =>
          /\ nread = 0 /\ segtype = Unbound /\ mesh_builder = <<>>
          /\ pc = "end" => outcome = "TruncatedFile"
    /\ (size >= 13 /\ SubSeq(file, 1, 4) # <<83, 77, 76, 49>>) =>
          /\ nread <= 4 /\ segtype = Unbound /\ mesh_builder = <<>>
          /\ pc = "end" => outcome = "InvalidHeader"

\* A 12-byte file that starts with "SML1" has ended with TruncatedFile.
C7_Witness ==
    /\ pc = "end" /\ size = 12 /\ SubSeq(file, 1, 4) = <<83, 77, 76, 49>>
    /\ outcome = "TruncatedFile" /\ fopen

\* The file starts with "SML1" and stores the CRC32C of its bytes [8, EOF).
SealedFile ==
    /\ size >= 8
    /\ SubSeq(file, 1, 4) = <<83, 77, 76, 49>>
    /\ SubSeq(file, 5, 8) = CrcBytes(crc32c(SubSeq(file, 9, size), <<0, 0>>))

\* C8 as stated: a file with a correct header, a valid checksum and no
\* segment after offset 8 decodes to an empty triangle list, no diagnostics.
C8_Original ==
    (pc = "end" /\ size = 8 /\ SealedFile) =>
        outcome = "Mesh" /\ mesh_builder = <<>> /\ diags = <<>>

\* C8 amended: that file, 8 bytes long, ends with TruncatedFile and no mesh;
\* the file with a correct header, a valid checksum and one comment segment
\* of length 0 (13 bytes) decodes to an empty triangle list, no diagnostics.
C8_Amended ==
    /\ (pc = "end" /\ size = 8 /\ SealedFile) =>
          outcome = "TruncatedFile" /\ mesh_builder = <<>> /\ nread = 0
    /\ (pc = "end" /\ size = 13 /\ SealedFile
        /\ SubSeq(file, 9, 13) = <<0, 0, 0, 0, 0>>) =>
          outcome = "Mesh" /\ mesh_builder = <<>> /\ diags = <<>>

\* The 8-byte file with a correct header and a valid checksum has ended.
C8_Witness == pc = "end" /\ size = 8 /\ SealedFile /\ outcome = "TruncatedFile"

\* The errors logged other than the checksum mismatch.
Others(ds) == SelectSeq(ds, LAMBDA x : x # "ChecksumMismatch")

\* C9: two files that differ only in the 4 bytes at offset 4 end with the
\* same outcome, the same faces and the same errors but for the
\* ChecksumMismatch, which is logged at most once.
C9_Advisory ==
    /\ Len(diags) - Len(Others(diags)) <= 1
    /\ (run = 2 /\ pc = "end") =>
          /\ outcome = first[1]
          /\ mesh_builder = first[2]
          /\ Others(diags) = Others(first[3])

\* The file decoded to a mesh with faces and no ChecksumMismatch, and its
\* copy with other bytes at offset 4 has decoded too, with a ChecksumMismatch.
C9_Witness ==
    /\ run = 2 /\ pc = "end" /\ outcome = "Mesh" /\ Len(mesh_builder) > 0
    /\ Len(diags) = Len(Others(diags)) + 1
    /\ first[3] = Others(first[3])

\* C10: once a yield checkpoint has been passed while the host asks for
\* cancellation, the decoder has stopped there: the call has ended with the
\* Cancelled outcome, the triangles emitted so far are discarded and no
\* mesh is returned.
C10_Cancelled ==
    cancelPending =>
        (pc = "end" /\ outcome = "Cancelled" /\ mesh_builder = <<>>)

\* The source triple of entry j (from 1) of the vertex list being decoded,
\* as struct.unpack gives it.
Source(j) ==
    LET p == pos - seglength[2]
    IN  IF segtype = 1
        THEN Unpack3f(SubSeq(file, p + 12 * j - 11, p + 12 * j))
        ELSE Unpack3d(SubSeq(file, p + 24 * j - 23, p + 24 * j))

\* The Python floats 1.0, 2.0, 3.0 and -2.0.
One == <<0, 1023, 0, 0>>

Two == <<0, 1024, 0, 0>>

Three == <<0, 1024, 33554432, 0>>

MinusTwo == <<1, 1024, 0, 0>>

\* C11: in a float (type 1) or double (type 2) vertex list, after the first
\* k entries the pool holds, at index j - 1 for the j-th entry of the
\* payload, the source triple (sx, sy, sz) as (sx, sz, -sy); the triple
\* (1, 2, 3) is stored as (1, 3, -2); and the finished list has one pool
\* entry per whole entry of the payload.
C11_Remap ==
    (segtype \in {1, 2} /\ pc \in {"float", "double", "yield"}) =>
        /\ Len(vertex_list) = k
        /\ \A j \in 1..k :
              /\ vertex_list[j] = <<Source(j)[1], Source(j)[3], Neg(Source(j)[2])>>
              /\ Source(j) = <<One, Two, Three>> =>
                    vertex_list[j] = <<One, Three, MinusTwo>>
        /\ pc = "yield" => (k = count /\ vertices = count)

\* A double vertex list has ended whose first source triple (1, 2, 3) is
\* stored as (1, 3, -2) and whose second entry is stored after it.
C11_Witness ==
    /\ segtype = 2 /\ pc = "yield" /\ vertices = 2
    /\ Source(1) = <<One, Two, Three>>
    /\ vertex_list[1] = <<One, Three, MinusTwo>>
    /\ vertex_list[2] = <<Three, One, Neg(Source(2)[2])>>

\* The faces of the first n indices of a strip by the claim's rule: one for
\* each position from the third on whose registers (a, b, c) all hold an
\* index below the pool size.
RECURSIVE StripFaces(_)
StripFaces(n) ==
    IF n < 3 THEN <<>>
    ELSE IF \A j \in 1..3 : InPool(Registers(n - 1)[j])
         THEN Append(StripFaces(n - 1), TriOf(Registers(n - 1)))
         ELSE StripFaces(n - 1)

\* C12: in a strip decoded against a pool, an index out of range, in the
\* first triple or at a later position, does not end the decode and is
\* never used to index the pool (no IndexError, no other exception from
\* the check); after the first k indices the faces added are exactly those
\* of the positions whose three registers are all below the pool size.
C12_StripSafe ==
    (segtype = 5 /\ vertices # Unbound /\ seglength[2] >= 12) =>
        /\ outcome \notin {"IndexError", "UnboundLocalError"}
        /\ pc \in {"strip", "yield"} => NewFaces = StripFaces(k)

\* C13: once the payload of a segment whose declared length L fits in the
\* file has been decoded, the read position is the segment's start + 5 + L,
\* which is the tracked position, whatever the type and also when L is not
\* a multiple of the element size or a strip declares fewer than 3 indices;
\* and PositionDesync is never logged.
C13_ExactConsumption ==
    /\ pc = "yield" => cursor = pos
    /\ \A j \in 1..Len(diags) : diags[j] # "PositionDesync"

\* The first n entries of the vertex list whose payload starts at offset p
\* with entries of w bytes, each as the source triple (sx, sy, sz) stored
\* as (sx, sz, -sy).
PoolOf(p, w, n) ==
    [j \in 1..n |->
        LET s == IF w = 12
                 THEN Unpack3f(SubSeq(file, p + 12 * j - 11, p + 12 * j))
                 ELSE Unpack3d(SubSeq(file, p + 24 * j - 23, p + 24 * j))
        IN  <<s[1], s[3], Neg(s[2])>>]

\* The points of the pool.
PoolPoints == {vertex_list[j] : j \in 1..Len(vertex_list)}

\* C14: once a vertex list has been decoded, and whatever segments came
\* before it, the pool is exactly the entries of the vertex-list segment
\* decoded last, with nothing of an earlier pool; in a face segment the
\* size the bounds checks compare with is the length of that pool; and
\* every face added by the segment is made of points of that pool.
C14_PoolReplaced ==
    /\ pc \in {"float", "double"} =>
          vertex_list = PoolOf(poolBase[1], poolBase[2], k)
    /\ (poolBase # <<>> /\ pc \notin {"float", "double"}) =>
          /\ vertices = Len(vertex_list)
          /\ vertex_list = PoolOf(poolBase[1], poolBase[2], vertices)
    /\ (segtype \in {3, 4, 5} /\ vertices # Unbound) =>
          /\ vertices = Len(vertex_list)
          /\ \A n \in 1..Len(NewFaces) : \A j \in 1..3 : NewFaces[n][j] \in PoolPoints

\* A triangle list has been decoded against the 2-entry double pool that
\* replaced the 5-entry float pool: its triple (1, 5, 2) is dropped and its
\* triple (1, 0, 1) is added with the points of the double pool.
C14_Witness ==
    /\ segtype = 3 /\ pc = "yield" /\ turns = 3 /\ vertices = 2
    /\ poolBase[2] = 24
    /\ vertex_list[1] = <<One, Three, MinusTwo>>
    /\ NewFaces = <<Tri(1, 0, 1)>>
    /\ Len(NewDiags) = 3

\* C15: a mesh is returned only with the read position at the end of the
\* file: when the segment loop has ended and the mesh is built, the tracked
\* position and the actual read position both equal the file size.
C15_DoneAtEof == outcome = "Mesh" => (pos = size /\ cursor = size)

\* C16: a comment segment (type 0) or a segment of a type above 5 whose
\* length L fits in the file is decoded in one step that leaves the pool
\* and the faces as they are and puts the read position at the segment's
\* start + 5 + L (the 5 header bytes were read, L bytes are skipped); the
\* type above 5 logs one UnsupportedSegment, the comment logs nothing;
\* the call does not end there, and goes on to the loop test for the next
\* segment.
C16_SkipFrame ==
    [][/\ (pc = "loop" /\ pc' = "dispatch") =>
             (cursor' = cursor + 5 /\ pos' = cursor' + seglength'[2])
       /\ (pc = "dispatch" /\ segtype \notin 1..5) =>
             /\ pc' = "yield" /\ outcome' = "running"
             /\ vertex_list' = vertex_list /\ vertices' = vertices
             /\ mesh_builder' = mesh_builder
             /\ cursor' = cursor + seglength[2] /\ cursor' = pos'
             /\ diags' = IF segtype = 0 THEN diags
                         ELSE Append(diags, "UnsupportedSegment")
       /\ (pc = "yield" /\ segtype \notin 1..5) =>
             (pc' = "loop" /\ outcome' = "running" /\ cursor' = pos')]_vars

\* A segment of type 9 has been skipped after a pool and faces were
\* decoded: one UnsupportedSegment logged, the decode still running.
C16_Witness ==
    /\ segtype = 9 /\ pc = "yield" /\ outcome = "running"
    /\ NewDiags = <<"UnsupportedSegment">> /\ NewFaces = <<>>
    /\ vertices = 5 /\ Len(mesh_builder) > 0
    /\ cursor = pos /\ turns = 3

\* C17: when the call has ended, with a mesh or with TruncatedFile,
\* InvalidHeader or TruncatedSegment, the file it opened has been closed.
C17_Closed ==
    (pc = "end" /\ outcome \in {"Mesh", "TruncatedFile", "InvalidHeader",
                                "TruncatedSegment"}) => ~fopen

\* The number of faces the payload of the current face segment declares.
Declared ==
    IF segtype = 3 THEN seglength[2] \div 12
    ELSE IF segtype = 4 THEN seglength[2] \div 16
    ELSE IF seglength[2] \div 4 >= 3 THEN seglength[2] \div 4 - 2 ELSE 0

\* C18: a face segment (type 3, 4 or 5) met before any vertex list is
\* decoded against a pool of size 0: the call does not end there, no face
\* is added, and once the segment is decoded each of its faces has logged
\* one IndexOutOfRange.
C18_FaceBeforePool ==
    (segtype \in {3, 4, 5} /\ poolBase = <<>> /\ seglength[2] >= 12) =>
        /\ outcome = "running"
        /\ NewFaces = <<>>
        /\ pc = "yield" => NewDiags = [j \in 1..Declared |-> "IndexOutOfRange"]

\* C19: the segment loop terminates on every file: each turn begun has
\* moved the read position on by 5 bytes or more, so that after n turns it
\* is at 8 + 5 * n or beyond, also after a PositionDesync; no more than
\* (fileSize - 8) / 5 turns are ever begun; and when the call has ended it
\* has ended with a mesh (Done) or with one of the fatal errors (Failed).
C19_Terminates ==
    /\ turns > 0 => (cursor >= 8 + 5 * turns /\ 5 * turns <= size - 8)
    /\ pc = "end" => outcome \in {"Mesh", "TruncatedFile", "InvalidHeader",
                                  "TruncatedSegment"}

====
